---- MODULE Spec2Model ----
(***************************************************************************)
(* Model of the perltidy-more formatter (src/src/formatter.ts, the cached  *)
(* revision, lines 135-299) and of its three entry points                  *)
(* (src/unnamed/part_000).                                                 *)
(*                                                                         *)
(* Strings are sequences of tokens (each token a TLA+ string), so that     *)
(* `a + b` is \o, '' is << >> and text.length is Len.  A path is such a    *)
(* sequence with "/" as a token of its own.                                *)
(*                                                                         *)
(* Scheduling follows Node's event loop: the synchronous part of a         *)
(* function is one action; `await` ends an action; an event of a child     *)
(* process runs all its listeners, in the order they were attached, in one *)
(* action.  Promise continuations (the rest of format after its await, the *)
(* rest of an entry point after format settled) run before the next I/O    *)
(* callback, the continuations of format in the order the calls were made; *)
(* several calls of format can be made before any continuation runs; the   *)
(* 'error' event of a failed spawn is emitted from process.nextTick and    *)
(* runs before queued continuations.                                       *)
(***************************************************************************)
EXTENDS Integers, Sequences, FiniteSets, TLC

\* ------------------------------------------------------------------ bounds
MaxCalls == 2
MaxProcs == 3
MaxErrChunks == 1

\* ------------------------------------------------------------ environment
\* A workspace folder (vscode.WorkspaceFolder): its uri's scheme and path.
Workspaces ==
    { [name |-> "w1", scheme |-> "file", path |-> <<"/", "w1">>, fsPath |-> <<"/", "w1">>] }

\* getWorkspaceFolder(document.uri) === undefined
NoWorkspace == [name |-> "none", scheme |-> "none", path |-> << >>, fsPath |-> << >>]

\* the slices document.getText(range) can return
Texts == { << >>, <<"a">>, <<"b">> }

\* values of the 'executable' setting
Executables == { <<"perltidy">>, <<"tidy.pl">> }

\* exit statuses of a process that was started
ExitCodes == {0, 2}

\* exit status Node reports in 'close' after a failed spawn (negative errno)
SpawnFailCodes == {-2}

\* codes of a process-level error
ErrorCodes == {"ENOENT", "EAGAIN", "EMFILE"}

\* the spawn failures after which the ChildProcess has no stdin, stdout and
\* stderr streams
NoStdioCodes == {"EMFILE"}

EntryPoints == {"range", "ontype", "command"}

VARIABLES
    workerCacheMap, \* Formatter.workerCacheMap: workspace name -> process id, 0 = no entry
    procs,          \* every process spawned so far, in spawn order
    calls,          \* the format calls (with their entry point's continuation)
    config,         \* the 'perltidy-more' configuration
    fs,             \* the paths that exist on disk
    uncaught,       \* failures nothing caught: kinds seen so far
    editor          \* a document, its workspace and the provider requests made for it

vars == <<workerCacheMap, procs, calls, config, fs, uncaught, editor>>

Calls == 1..MaxCalls
WsNames == { w.name : w \in Workspaces }

\* ------------------------------------------------------------------ paths
\* path.isAbsolute
isAbsolute(p) == Len(p) > 0 /\ p[1] = "/"

\* path.join(a, b) of two normalised paths: empty segments are dropped
join(a, b) ==
    IF b = << >> THEN a
    ELSE IF a = << >> THEN b
    ELSE a \o <<"/">> \o b

\* fs.existsSync
existsSync(p) == p \in fs

RcPath(workspace) == join(workspace.path, <<".perltidyrc">>)

\* ------------------------------------------------------- the external tool
\* What the tool writes to its output for an input slice, chunk by chunk:
\* the tool is a black box, so the output is a fixed injective image of the
\* input, delivered in two 'data' events.
TidyChunks(text) == << <<"[">> \o text, <<"]">> >>

RECURSIVE Concat(_)
Concat(chunks) ==
    IF chunks = << >> THEN << >> ELSE Head(chunks) \o Concat(Tail(chunks))

TidyOutput(text) == Concat(TidyChunks(text))

\* one chunk of diagnostics on the error stream
ErrChunk == <<"syntax error">>

\* ---------------------------------------------------------------- errors
NoError == [cls |-> "none", tmpl |-> "none", exe |-> << >>, code |-> 0, errors |-> << >>]

\* new FormatError('Format failed. File must be belong to one workspace at least.')
MustBelongError ==
    [cls |-> "FormatError", tmpl |-> "must-belong-to-workspace",
     exe |-> << >>, code |-> 0, errors |-> << >>]

\* new FormatError(`Format failed. Executable file (\`${executable}\`) is not found.
\*                  You probably forgot to install perltidy.`)
NotFoundHintError(executable) ==
    [cls |-> "FormatError", tmpl |-> "not-found-forgot-to-install",
     exe |-> executable, code |-> 0, errors |-> << >>]

\* new FormatError(`Format failed. Executable file (\`${executable}\`) is not found.`)
NotFoundError(executable) ==
    [cls |-> "FormatError", tmpl |-> "not-found",
     exe |-> executable, code |-> 0, errors |-> << >>]

\* new FormatError(`Format failed. Perltidy exited with exit code ${code}.`)
ExitCodeError(code) ==
    [cls |-> "FormatError", tmpl |-> "exit-code",
     exe |-> << >>, code |-> code, errors |-> << >>]

\* new FormatError(`... exited with exit code ${code}. Error messages: ${error_text}`)
ExitCodeErrorWithMessages(code, error_text) ==
    [cls |-> "FormatError", tmpl |-> "exit-code-error-messages",
     exe |-> << >>, code |-> code, errors |-> error_text]

\* the error object `e` of a process 'error' event, passed on as it is
ProcessError(e) ==
    [cls |-> "Error", tmpl |-> e.code, exe |-> << >>, code |-> 0, errors |-> << >>]

\* what `worker.stdin.write(text)` throws when worker.stdin is undefined
WriteError ==
    [cls |-> "TypeError", tmpl |-> "write-failed", exe |-> << >>, code |-> 0, errors |-> << >>]

\* isErrnoException (./error): the value is an Error that carries a `code`
isErrnoException(e) == e.errno

\* the process-level errors Node emits: system errors with a code
ProcessErrors == { [errno |-> TRUE, code |-> c] : c \in ErrorCodes }

\* --------------------------------------------------------------- outcomes
\* the promise format() returns
Pending == [kind |-> "pending", text |-> << >>, undef |-> FALSE, error |-> NoError]
Resolved(text) == [kind |-> "resolved", text |-> text, undef |-> FALSE, error |-> NoError]
ResolvedUndefined == [kind |-> "resolved", text |-> << >>, undef |-> TRUE, error |-> NoError]
Rejected(error) == [kind |-> "rejected", text |-> << >>, undef |-> FALSE, error |-> error]

NoEdit == [made |-> FALSE, text |-> << >>]
TextEdit(text) == [made |-> TRUE, text |-> text]

WorkspaceOf(name) ==
    IF name \in WsNames THEN CHOOSE w \in Workspaces : w.name = name ELSE NoWorkspace

\* ------------------------------------------------------------ createWorker
\* The world the formatter's code reads and writes, passed through the
\* operators below: w.cache, w.procs, w.calls, w.uncaught.
World == [cache |-> workerCacheMap, procs |-> procs, calls |-> calls, uncaught |-> uncaught]

\* the arguments of spawn(executable, args, options)
SpawnArgs(workspace) ==
    LET executable == config.executable
        profile    == config.profile
        args       == <<"--standard-output", "-no-add-terminal-newline">>
                      \o (IF profile # << >> THEN <<"--profile=">> \o profile ELSE << >>)
        cwd0       == IF workspace.scheme # "file" THEN <<".">> ELSE workspace.fsPath
        resolved   == join(workspace.path, executable)
        useLocal   == ~isAbsolute(executable) /\ existsSync(resolved)
    IN  [executable |-> IF useLocal THEN resolved ELSE executable,
         args       |-> args,
         cwd        |-> IF useLocal THEN workspace.path ELSE cwd0]

\* a process spawn has returned: running, nothing written, nothing emitted, no
\* listener; errorCode and exitCode are set by its 'error' and 'close' events
NewProcess(workspace) ==
    LET s == SpawnArgs(workspace)
    IN  [ws |-> workspace.name, executable |-> s.executable, args |-> s.args, cwd |-> s.cwd,
         st |-> "running", stdin |-> << >>, ended |-> FALSE,
         outN |-> 0, errN |-> 0, listeners |-> << >>,
         errorCode |-> "none", exitCode |-> 0]

\* spawn('') throws: "The argument 'file' cannot be empty"
InvalidArgError ==
    [cls |-> "TypeError", tmpl |-> "ERR_INVALID_ARG_VALUE", exe |-> << >>, code |-> 0,
     errors |-> << >>]

\* spawn(executable, args, options) throws instead of starting a process
SpawnThrows(workspace) == SpawnArgs(workspace).executable = << >>

\* createWorker: spawns and returns the new process's id, or throws what
\* spawn throws for an empty file name
createWorker(w, workspace) ==
    IF SpawnThrows(workspace)
    THEN [w |-> w, ok |-> FALSE, worker |-> 0, error |-> InvalidArgError]
    ELSE [w |-> [w EXCEPT !.procs = Append(w.procs, NewProcess(workspace))],
          ok |-> TRUE, worker |-> Len(w.procs) + 1, error |-> NoError]

isFormatEnabled(workspace) ==
    IF config.autoDisable
    THEN (IF ~existsSync(RcPath(workspace)) THEN FALSE ELSE TRUE)
    ELSE TRUE

\* ----------------------------------------------------------------- standBy
\* standBy without its first line: isFormatEnabled(undefined) then throws a
\* TypeError
standBy_NoUndefinedCheck(w, workspace) ==
    IF workspace = NoWorkspace
    THEN [w |-> w, ok |-> FALSE, worker |-> 0,
          error |-> [cls |-> "TypeError", tmpl |-> "undefined-workspace",
                     exe |-> << >>, code |-> 0, errors |-> << >>]]
    ELSE IF ~isFormatEnabled(workspace)
    THEN [w |-> w, ok |-> FALSE, worker |-> 0, error |-> MustBelongError]
    ELSE IF w.cache[workspace.name] # 0
    THEN [w |-> w, ok |-> TRUE, worker |-> w.cache[workspace.name], error |-> NoError]
    ELSE IF SpawnThrows(workspace)
    THEN createWorker(w, workspace)
    ELSE LET r == createWorker(w, workspace)
         IN  [w |-> [r.w EXCEPT !.cache[workspace.name] = r.worker],
              ok |-> TRUE, worker |-> r.worker, error |-> NoError]

\* Result: the world after the call, and either the handle (ok, worker) or
\* the error thrown.
standBy(w, workspace) ==
    IF workspace = NoWorkspace
    THEN [w |-> w, ok |-> FALSE, worker |-> 0, error |-> MustBelongError]
    ELSE IF ~isFormatEnabled(workspace)
    THEN [w |-> w, ok |-> FALSE, worker |-> 0, error |-> MustBelongError]
    ELSE IF w.cache[workspace.name] # 0
    THEN [w |-> w, ok |-> TRUE, worker |-> w.cache[workspace.name], error |-> NoError]
    ELSE IF SpawnThrows(workspace)
    THEN createWorker(w, workspace)
    ELSE LET r == createWorker(w, workspace)
         IN  [w |-> [r.w EXCEPT !.cache[workspace.name] = r.worker],
              ok |-> TRUE, worker |-> r.worker, error |-> NoError]

\* this.workerCacheMap.delete(currentWorkspace!)
CacheDelete(w, wsName) == [w EXCEPT !.cache[wsName] = 0]

\* an eviction that acquires the replacement before it removes the entry
EvictAndStandBy_StandByFirst(w, c) ==
    LET wsName == w.calls[c].workspace
        r      == standBy(w, WorkspaceOf(wsName))
        w1     == CacheDelete(r.w, wsName)
    IN  IF r.ok THEN w1
        ELSE [w1 EXCEPT !.uncaught = @ \cup {"unhandledRejection"}]

\* this.workerCacheMap.delete(currentWorkspace!); this.standBy(currentWorkspace!);
\* the promise standBy returns is dropped: a rejection of it is unhandled
EvictAndStandBy(w, c) ==
    LET wsName == w.calls[c].workspace
        r      == standBy(CacheDelete(w, wsName), WorkspaceOf(wsName))
    IN  IF r.ok THEN r.w
        ELSE [r.w EXCEPT !.uncaught = @ \cup {"unhandledRejection"}]

\* resolve / reject of the promise: only the first call settles it
Settle(w, c, outcome) ==
    IF w.calls[c].outcome.kind = "pending"
    THEN [w EXCEPT !.calls[c].outcome = outcome, !.calls[c].pc = "settled"]
    ELSE w

resolve(w, c, text) == Settle(w, c, Resolved(text))
reject(w, c, error) == Settle(w, c, Rejected(error))

\* --------------------------------------------------- the listeners of format
\* worker.on('error', (e) => ...)
OnError(w, c, e) ==
    LET w1         == EvictAndStandBy(w, c)
        executable == w.calls[c].executable
    IN  IF isErrnoException(e) /\ e.code = "ENOENT"
        THEN (IF executable = <<"perltidy">>
              THEN reject(w1, c, NotFoundHintError(executable))
              ELSE reject(w1, c, NotFoundError(executable)))
        ELSE reject(w1, c, ProcessError(e))

\* worker.stdout.on('data', (chunk) => { result_text += chunk })
OnStdoutData(w, c, chunk) == [w EXCEPT !.calls[c].result_text = @ \o chunk]

\* worker.stderr.on('data', (chunk) => { error_text += chunk })
OnStderrData(w, c, chunk) == [w EXCEPT !.calls[c].error_text = @ \o chunk]

\* worker.on('close', (code) => ...)
OnClose(w, c, code) ==
    LET w1 == EvictAndStandBy(w, c)
    IN  IF code # 0
        THEN (IF w1.calls[c].error_text = << >>
              THEN reject(w1, c, ExitCodeError(code))
              ELSE reject(w1, c, ExitCodeErrorWithMessages(code, w1.calls[c].error_text)))
        ELSE resolve(w1, c, w1.calls[c].result_text)

\* an event: its kind and its argument
ErrorEvent(e)   == [kind |-> "error", e |-> e, chunk |-> << >>, code |-> 0]
StdoutEvent(ch) == [kind |-> "stdout", e |-> [errno |-> FALSE, code |-> "none"], chunk |-> ch, code |-> 0]
StderrEvent(ch) == [kind |-> "stderr", e |-> [errno |-> FALSE, code |-> "none"], chunk |-> ch, code |-> 0]
CloseEvent(code) == [kind |-> "close", e |-> [errno |-> FALSE, code |-> "none"], chunk |-> << >>, code |-> code]

Handle(w, c, ev) ==
    CASE ev.kind = "error"  -> OnError(w, c, ev.e)
      [] ev.kind = "stdout" -> OnStdoutData(w, c, ev.chunk)
      [] ev.kind = "stderr" -> OnStderrData(w, c, ev.chunk)
      [] ev.kind = "close"  -> OnClose(w, c, ev.code)

\* EventEmitter.emit: the listeners run one after the other, in the order
\* they were attached
RECURSIVE Emit(_, _, _)
Emit(w, listeners, ev) ==
    IF listeners = << >> THEN w
    ELSE Emit(Handle(w, Head(listeners), ev), Tail(listeners), ev)

\* An 'error' event nobody listens to is thrown by the emitter: an uncaught
\* exception.
EmitToProcess(w, p, ev) ==
    LET w1 == Emit(w, w.procs[p].listeners, ev)
    IN  IF ev.kind = "error" /\ w.procs[p].listeners = << >>
        THEN [w1 EXCEPT !.uncaught = @ \cup {"uncaughtException"}]
        ELSE w1

\* the next state is the world w
Becomes(w) ==
    /\ Len(w.procs) <= MaxProcs
    /\ workerCacheMap' = w.cache
    /\ procs' = w.procs
    /\ calls' = w.calls
    /\ uncaught' = w.uncaught

\* ------------------------------------------------------------------- Init
IdleCall ==
    [pc |-> "idle", entry |-> "range", workspace |-> "none", text |-> << >>,
     worker |-> 0, executable |-> << >>, result_text |-> << >>, error_text |-> << >>,
     outcome |-> Pending, cancelled |-> FALSE, edit |-> NoEdit, notified |-> 0]

\* the paths that may or may not exist: the workspace's .perltidyrc and a
\* script of the workspace named like the 'executable' setting
\* ------------------------------------------------- documents and ranges
\* vscode.Position
Position(line, character) == [line |-> line, character |-> character]

isBefore(a, b) ==
    a.line < b.line \/ (a.line = b.line /\ a.character < b.character)

isBeforeOrEqual(a, b) == a = b \/ isBefore(a, b)

\* vscode.Range: start and end are swapped when start is after end
VsRange(start, end) ==
    IF isBefore(end, start) THEN [start |-> end, end |-> start]
    ELSE [start |-> start, end |-> end]

\* `null` where a range or a selection is expected
NullRange == [start |-> Position(-1, -1), end |-> Position(-1, -1)]

isEmpty(range) == range.start = range.end

\* a document is the sequence of its lines' texts; lineAt(n).text, n from 0
lineAt(document, n) == document[n + 1]

lineCount(document) == Len(document)

\* String.prototype.lastIndexOf for a one-character search string
lastIndexOf(text, ch) ==
    LET found == { i \in 1..Len(text) : text[i] = ch }
    IN  IF found = {} THEN -1
        ELSE (CHOOSE i \in found : \A j \in found : j <= i) - 1

\* the characters \s matches (a character that has no escape in a string is
\* the token of its code point); the line terminators among them cannot be
\* inside a line
WhitespaceChars ==
    { " ", "\t", "\n", "\r", "\f", "U+000B", "U+00A0", "U+1680",
      "U+2000", "U+2001", "U+2002", "U+2003", "U+2004", "U+2005", "U+2006",
      "U+2007", "U+2008", "U+2009", "U+200A", "U+2028", "U+2029", "U+202F",
      "U+205F", "U+3000", "U+FEFF" }

\* text.match(/^\s*$/)
MatchesBlank(text) == \A i \in 1..Len(text) : text[i] \in WhitespaceChars

\* the lines from..to of the document, whole, each with its line break
RECURSIVE WholeLines(_, _, _)
WholeLines(document, from, to) ==
    IF from > to THEN << >>
    ELSE lineAt(document, from) \o <<"\n">> \o WholeLines(document, from + 1, to)

\* a position brought into the document, as getText does with the ends of
\* its range: past the last line it becomes the end of the document, past
\* the end of its line the end of that line
validatePosition(document, position) ==
    IF position.line >= lineCount(document)
    THEN Position(lineCount(document) - 1,
                  Len(lineAt(document, lineCount(document) - 1)))
    ELSE IF position.character > Len(lineAt(document, position.line))
    THEN Position(position.line, Len(lineAt(document, position.line)))
    ELSE position

\* document.getText(range)
getText(document, range) ==
    LET start == validatePosition(document, range.start)
        end   == validatePosition(document, range.end)
    IN  IF start.line = end.line
        THEN SubSeq(lineAt(document, start.line), start.character + 1, end.character)
        ELSE SubSeq(lineAt(document, start.line),
                    start.character + 1, Len(lineAt(document, start.line)))
             \o <<"\n">>
             \o WholeLines(document, start.line + 1, end.line - 1)
             \o SubSeq(lineAt(document, end.line), 1, end.character)

get_range(document, range, selection) ==
    LET r1 == IF selection # NullRange /\ ~isEmpty(selection)
              THEN VsRange(selection.start, selection.end) ELSE range
    IN  IF r1 = NullRange
        THEN VsRange(Position(0, 0),
                     Position(lineCount(document) - 1,
                              Len(lineAt(document, lineCount(document) - 1))))
        ELSE r1

\* an expansion that does not look at what precedes the range on its line
ExpandRange_Always(document, range) ==
    get_range(document, VsRange(Position(range.start.line, 0), range.end), NullRange)

\* provideDocumentRangeFormattingEdits, up to the call of format: the range
\* that is passed to format
ExpandRange(document, range) ==
    LET indentRange == VsRange(Position(range.start.line, 0), range.start)
        expanded == IF MatchesBlank(getText(document, indentRange))
                    THEN VsRange(Position(range.start.line, 0), range.end)
                    ELSE range
    IN  get_range(document, expanded, NullRange)

\* the while loop of provideOnTypeFormattingEdits, from lineNumber downwards
RECURSIVE ScanStart(_, _)
ScanStart(document, lineNumber) ==
    IF lineNumber < 0 THEN Position(0, 0)
    ELSE IF lastIndexOf(lineAt(document, lineNumber), ";") >= 0
         THEN Position(lineNumber + 1, 0)
         ELSE ScanStart(document, lineNumber - 1)

\* a scan that starts on the trigger line itself
OnTypeRange_ScanFromTriggerLine(document, position) ==
    VsRange(ScanStart(document, position.line), position)

\* provideOnTypeFormattingEdits, up to the call of format
OnTypeRange(document, position) ==
    VsRange(ScanStart(document, position.line - 1), position)

\* new vscode.TextEdit(range, res), or no edit
NoRangeEdit == [made |-> FALSE, range |-> NullRange, text |-> << >>]

RangeEdit(range, edit) ==
    IF edit.made THEN [made |-> TRUE, range |-> range, text |-> edit.text]
    ELSE NoRangeEdit

\* what a provider keeps of its request (the request of call c is
\* requests[c]): the position or the candidate range it was given, the range
\* it resolved and passed to format, the edit it returned
IdleRequest ==
    [request |-> "none", position |-> Position(-1, -1),
     range |-> NullRange, resolved |-> NullRange, edit |-> NoRangeEdit]

\* no provider request has been made
NoRequest ==
    [document |-> << >>, workspace |-> "none", requests |-> [c \in Calls |-> IdleRequest]]

OptionalPaths ==
    UNION { { RcPath(ws), join(ws.path, <<"tidy.pl">>) } : ws \in Workspaces }

Init ==
    /\ workerCacheMap = [n \in WsNames |-> 0]
    /\ procs = << >>
    /\ calls = [c \in Calls |-> IdleCall]
    /\ config \in [executable : Executables, profile : { << >> }, autoDisable : BOOLEAN]
    /\ fs \in { { ws.path : ws \in Workspaces } \cup s : s \in SUBSET OptionalPaths }
    /\ uncaught = {}
    /\ editor = NoRequest

\* ----------------------------------------------------------------- format
\* format() that acquires the handle before it looks at the text
FormatBegin_StandByFirst(w, c, entry, wsName, text) ==
    LET w0 == [w EXCEPT !.calls[c].entry = entry,
                        !.calls[c].workspace = wsName,
                        !.calls[c].text = text]
        r  == standBy(w0, WorkspaceOf(wsName))
    IN  IF ~r.ok THEN reject(r.w, c, r.error)
        ELSE IF text = << >> \/ Len(text) = 0 THEN resolve(r.w, c, << >>)
        ELSE [r.w EXCEPT !.calls[c].worker = r.worker,
                         !.calls[c].executable = r.w.procs[r.worker].executable,
                         !.calls[c].pc = "await"]

\* format(), from its first line to `await this.standBy(currentWorkspace)`
FormatBegin(w, c, entry, wsName, text) ==
    LET w0 == [w EXCEPT !.calls[c].entry = entry,
                        !.calls[c].workspace = wsName,
                        !.calls[c].text = text]
    IN  IF text = << >> \/ Len(text) = 0
        THEN resolve(w0, c, << >>)
        ELSE LET r == standBy(w0, WorkspaceOf(wsName))
             IN  IF r.ok
                 THEN [r.w EXCEPT !.calls[c].worker = r.worker,
                                  !.calls[c].executable = r.w.procs[r.worker].executable,
                                  !.calls[c].pc = "await"]
                 ELSE reject(r.w, c, r.error)

\* worker.stdin.write(text) and worker.stdin.end() reach the process
Writable(w, p) == w.procs[p].st = "running" /\ ~w.procs[p].ended

\* ... worker.on('error'), stdout.on('data'), stderr.on('data'), worker.on('close')
AttachListeners(w, c) ==
    LET p == w.calls[c].worker
    IN  [w EXCEPT !.procs[p].listeners = Append(@, c), !.calls[c].pc = "attached"]

\* the promise executor when write and end are accepted.  The text reaches
\* the process, unless the process has exited and Node has not handled the
\* exit yet: then the text reaches nobody and the stream fails later (EPIPE).
ExecutorWrites(w, c, exited) ==
    LET p  == w.calls[c].worker
        w1 == IF exited
              THEN [w EXCEPT !.procs[p].st = "exiting", !.procs[p].ended = TRUE]
              ELSE [w EXCEPT !.procs[p].stdin = w.calls[c].text, !.procs[p].ended = TRUE]
    IN  AttachListeners(w1, c)

\* the promise executor when the stream is ended or the process is gone: the
\* text reaches no process and the executor goes on to attach its listeners.
\* The stream either drops the write silently or reports it later, as an
\* 'error' event of stdin that nobody listens to.
ExecutorWriteLost(w, c, reported) ==
    AttachListeners(IF reported
                    THEN [w EXCEPT !.uncaught = @ \cup {"uncaughtException"}]
                    ELSE w, c)

\* the stream reports a lost write only while it is not destroyed yet: the
\* process runs and the write follows the end() closely
MayReportLostWrite(w, p) == w.procs[p].st \in {"running", "exiting"} /\ w.procs[p].ended

\* nothing has been done with the process and it has emitted nothing: whether
\* its spawn succeeded is not known yet
Fresh(w, p) ==
    /\ w.procs[p].st = "running"
    /\ ~w.procs[p].ended
    /\ w.procs[p].outN = 0 /\ w.procs[p].errN = 0
    /\ w.procs[p].listeners = << >>

\* the spawn of the process failed so that it has no stdin: the failure is
\* known from a write that threw ("failing", 'error' still to come) or from
\* its 'error' event
NoStdin(w, p) ==
    \/ w.procs[p].st = "failing"
    \/ w.procs[p].st = "unhandled" /\ w.procs[p].errorCode \in NoStdioCodes

\* the promise executor when worker.stdin is undefined: the write throws, the
\* catch block runs
ExecutorCatch(w, c) ==
    LET p  == w.calls[c].worker
        w1 == IF Fresh(w, p) THEN [w EXCEPT !.procs[p].st = "failing"] ELSE w
    IN  reject(EvictAndStandBy(w1, c), c, WriteError)

\* ------------------------------------------------------- the entry points
\* handleTidyError(e) (./error): shows the failure to the user
handleTidyError(call) == [call EXCEPT !.notified = @ + 1]

\* provideDocumentRangeFormattingEdits, after `await formatter.format(...)`
RangeFormattingReturn(call) ==
    IF call.outcome.kind = "rejected" THEN handleTidyError(call)
    ELSE IF call.outcome.undef THEN call
    ELSE [call EXCEPT !.edit = TextEdit(call.outcome.text)]

\* provideOnTypeFormattingEdits, after `await formatter.format(...)`
OnTypeReturn(call) ==
    IF call.outcome.kind = "rejected" THEN handleTidyError(call)
    ELSE IF call.outcome.undef \/ call.cancelled THEN call
    ELSE [call EXCEPT !.edit = TextEdit(call.outcome.text)]

\* the perltidy-more.tidy command, after `await formatter.format(...)`
TidyCommandReturn(call) ==
    IF call.outcome.kind = "rejected" THEN handleTidyError(call)
    ELSE IF call.outcome.undef THEN call
    ELSE [call EXCEPT !.edit = TextEdit(call.outcome.text)]

EntryReturn(call) ==
    CASE call.entry = "range"   -> RangeFormattingReturn(call)
      [] call.entry = "ontype"  -> OnTypeReturn(call)
      [] call.entry = "command" -> TidyCommandReturn(call)

\* ---------------------------------------------------------------- actions
\* no continuation of format or of an entry point is queued
NoContinuationQueued == \A c \in Calls : calls[c].pc \notin {"await", "settled"}

\* an entry point is invoked and calls format
Format(c) ==
    /\ calls[c].pc = "idle"
    /\ \A d \in Calls : d < c => calls[d].pc # "idle"
    /\ \E entry \in EntryPoints, wsName \in WsNames \cup {"none"}, text \in Texts :
          Becomes(FormatBegin(World, c, entry, wsName, text))
    /\ UNCHANGED <<config, fs, editor>>

\* the continuations of format after its await run in the order of the calls
ExecutorTurn(c) ==
    /\ calls[c].pc = "await"
    /\ \A d \in Calls : d < c => calls[d].pc # "await"

\* format resumes after the await
Executor(c) ==
    /\ ExecutorTurn(c)
    /\ Writable(World, calls[c].worker)
    /\ \E exited \in BOOLEAN : Becomes(ExecutorWrites(World, c, exited))
    /\ UNCHANGED <<config, fs, editor>>

ExecutorLost(c) ==
    /\ ExecutorTurn(c)
    /\ ~Writable(World, calls[c].worker)
    /\ ~NoStdin(World, calls[c].worker)
    /\ \E reported \in (IF MayReportLostWrite(World, calls[c].worker)
                         THEN BOOLEAN ELSE {FALSE}) :
          Becomes(ExecutorWriteLost(World, c, reported))
    /\ UNCHANGED <<config, fs, editor>>

ExecutorThrows(c) ==
    /\ ExecutorTurn(c)
    /\ NoStdin(World, calls[c].worker) \/ Fresh(World, calls[c].worker)
    /\ Becomes(ExecutorCatch(World, c))
    /\ UNCHANGED <<config, fs, editor>>

\* token.isCancellationRequested is read by the on-type provider only, and
\* only when format resolved with a text
ReadsToken(call) ==
    call.entry = "ontype" /\ call.outcome.kind = "resolved" /\ ~call.outcome.undef

\* the entry point resumes after `await formatter.format(...)`; by then the
\* editor has or has not cancelled the request
Return(c) ==
    /\ calls[c].pc = "settled"
    /\ \E cancelled \in (IF ReadsToken(calls[c]) THEN BOOLEAN ELSE {FALSE}) :
          calls' = [calls EXCEPT ![c] =
                      [EntryReturn([calls[c] EXCEPT !.cancelled = cancelled])
                          EXCEPT !.pc = "returned"]]
    /\ editor' = IF editor.requests[c].request = "none" THEN editor
                  ELSE [editor EXCEPT !.requests[c].edit =
                           RangeEdit(editor.requests[c].resolved, calls'[c].edit)]
    /\ UNCHANGED <<workerCacheMap, procs, config, fs, uncaught>>

ProcIds == 1..Len(procs)

\* the codes the spawn of the process can have failed with: one that leaves
\* no stdin if a write has thrown, one that leaves a stdin if a write was
\* accepted or listeners were attached
RaisableCodes(p) ==
    IF procs[p].st = "failing" THEN NoStdioCodes
    ELSE IF Fresh(World, p) THEN ErrorCodes
    ELSE ErrorCodes \ NoStdioCodes

\* the process could not be started: 'error', emitted from process.nextTick,
\* which runs before the promise continuations that are queued.  With no
\* listener the emitter throws, and the throw also keeps the process from
\* ever emitting 'close' ("unhandled"); with a listener 'close' follows
\* ("errored").
ProcError(p) ==
    /\ procs[p].st \in {"running", "failing"}
    /\ procs[p].outN = 0 /\ procs[p].errN = 0
    /\ \E e \in ProcessErrors :
          /\ e.code \in RaisableCodes(p)
          /\ Becomes(EmitToProcess([World EXCEPT !.procs[p].st =
                                                 IF procs[p].listeners = << >>
                                                 THEN "unhandled" ELSE "errored",
                                              !.procs[p].errorCode = e.code],
                                p, ErrorEvent(e)))
    /\ UNCHANGED <<config, fs, editor>>

\* the tool writes the next chunk of its output, after it has read its input
ProcStdout(p) ==
    /\ NoContinuationQueued
    /\ procs[p].st = "running"
    /\ procs[p].ended
    /\ procs[p].outN < Len(TidyChunks(procs[p].stdin))
    /\ Becomes(EmitToProcess([World EXCEPT !.procs[p].outN = @ + 1], p,
                             StdoutEvent(TidyChunks(procs[p].stdin)[procs[p].outN + 1])))
    /\ UNCHANGED <<config, fs, editor>>

\* the tool writes a diagnostic (one that nobody listens to changes nothing
\* and is left out); what a process wrote before it exited is delivered
\* after the failure of the write to it
ProcStderr(p) ==
    /\ NoContinuationQueued
    /\ procs[p].st \in {"running", "exited"}
    /\ procs[p].errN < MaxErrChunks
    /\ procs[p].listeners # << >>
    /\ Becomes(EmitToProcess([World EXCEPT !.procs[p].errN = @ + 1], p, StderrEvent(ErrChunk)))
    /\ UNCHANGED <<config, fs, editor>>

\* the write to a process that had exited fails: 'error' (EPIPE) of
\* worker.stdin, which has no listener
ProcStdinError(p) ==
    /\ NoContinuationQueued
    /\ procs[p].st = "exiting"
    /\ Becomes([World EXCEPT !.procs[p].st = "exited",
                             !.uncaught = @ \cup {"uncaughtException"}])
    /\ UNCHANGED <<config, fs, editor>>

\* the exit statuses the process can close with now: a failure status at any
\* time; 0 once the whole output is out, or with no output at all (a tool
\* that exits without reading its input, before or after the write to it,
\* used by a call or not); the spawn failure's after an 'error' that was
\* listened to
ClosableWith(p) ==
    IF procs[p].st = "errored" THEN SpawnFailCodes
    ELSE IF procs[p].st = "exited" THEN ExitCodes
    ELSE IF procs[p].st # "running" THEN {}
    ELSE (ExitCodes \ {0})
         \cup (IF \/ procs[p].outN = 0
                  \/ procs[p].ended /\ procs[p].outN = Len(TidyChunks(procs[p].stdin))
               THEN {0} ELSE {})

ProcClose(p) ==
    /\ NoContinuationQueued
    /\ \E code \in ClosableWith(p) :
          Becomes(EmitToProcess([World EXCEPT !.procs[p].st = "closed",
                                              !.procs[p].exitCode = code],
                                p, CloseEvent(code)))
    /\ UNCHANGED <<config, fs, editor>>

\* .perltidyrc is created or deleted (nothing reads it unless autoDisable is on)
ChangeRc ==
    /\ NoContinuationQueued
    /\ config.autoDisable
    /\ \E ws \in Workspaces :
          fs' = IF RcPath(ws) \in fs THEN fs \ {RcPath(ws)} ELSE fs \cup {RcPath(ws)}
    /\ UNCHANGED <<workerCacheMap, procs, calls, config, uncaught, editor>>

Next ==
    \/ \E c \in Calls : Format(c)
    \/ \E c \in Calls : Executor(c)
    \/ \E c \in Calls : ExecutorLost(c)
    \/ \E c \in Calls : ExecutorThrows(c)
    \/ \E c \in Calls : Return(c)
    \/ \E p \in ProcIds : ProcError(p)
    \/ \E p \in ProcIds : ProcStdinError(p)
    \/ \E p \in ProcIds : ProcStdout(p)
    \/ \E p \in ProcIds : ProcStderr(p)
    \/ \E p \in ProcIds : ProcClose(p)
    \/ ChangeRc

Spec == Init /\ [][Next]_vars

\* ------------------------------------------- the providers' range resolution
\* A second specification: the two providers are asked for the edits of a
\* document given line by line.  A request resolves its range, calls format
\* with the text of that range and returns when format has settled.
MaxLines == 6
MaxRangeLines == 2

\* how many provider requests are made
MaxRequests == 1

\* line texts for the backward scan: with and without a ';'
ScanLineTexts == { <<"}">>, <<"x", ";">> }

\* line texts for the expansion: blank, indented with spaces, with a tab,
\* with a no-break space, and not indented
RangeLineTexts ==
    { << >>, <<" ", " ", "d">>, <<"r", " ", "d">>, <<"\t", "d", ";">>, <<"U+00A0", "d">> }

Documents == [1..MaxLines -> ScanLineTexts] \cup [1..MaxRangeLines -> RangeLineTexts]

\* the positions in the lines 0..(lines - 1) of the document
PositionsWithin(document, lines) ==
    UNION { { Position(l, ch) : ch \in 0..Len(lineAt(document, l)) }
              : l \in 0..(lines - 1) }

Positions(document) == PositionsWithin(document, lineCount(document))

\* the candidate ranges the editor asks to format (within the first lines)
Ranges(document) ==
    LET within == PositionsWithin(document,
                      IF lineCount(document) < MaxRangeLines
                      THEN lineCount(document) ELSE MaxRangeLines)
    IN  { VsRange(a, b) : a \in within, b \in within }

InitEditor ==
    /\ workerCacheMap = [n \in WsNames |-> 0]
    /\ procs = << >>
    /\ calls = [c \in Calls |-> IdleCall]
    /\ config = [executable |-> <<"perltidy">>, profile |-> << >>, autoDisable |-> FALSE]
    /\ fs = { ws.path : ws \in Workspaces }
    /\ uncaught = {}
    /\ editor \in { [NoRequest EXCEPT !.document = d, !.workspace = n]
                      : d \in Documents, n \in WsNames \cup {"none"} }

\* the request c can be made now
Requestable(c) ==
    /\ c <= MaxRequests
    /\ calls[c].pc = "idle"
    /\ \A d \in Calls : d < c => calls[d].pc # "idle"

\* provideDocumentRangeFormattingEdits up to its await: the range is
\* resolved and format is called
ProvideRangeEdits(c) ==
    /\ Requestable(c)
    /\ \E range \in Ranges(editor.document) :
          LET resolved == ExpandRange(editor.document, range)
          IN  /\ Becomes(FormatBegin(World, c, "range", editor.workspace,
                                     getText(editor.document, resolved)))
              /\ editor' = [editor EXCEPT !.requests[c] =
                               [@ EXCEPT !.request = "range", !.range = range,
                                         !.resolved = resolved]]
    /\ UNCHANGED <<config, fs>>

\* provideOnTypeFormattingEdits up to its await
ProvideOnTypeEdits(c) ==
    /\ Requestable(c)
    /\ \E position \in Positions(editor.document) :
          LET resolved == OnTypeRange(editor.document, position)
          IN  /\ Becomes(FormatBegin(World, c, "ontype", editor.workspace,
                                     getText(editor.document, resolved)))
              /\ editor' = [editor EXCEPT !.requests[c] =
                               [@ EXCEPT !.request = "ontype", !.position = position,
                                         !.resolved = resolved]]
    /\ UNCHANGED <<config, fs>>

NextEditor ==
    \/ \E c \in Calls : ProvideRangeEdits(c)
    \/ \E c \in Calls : ProvideOnTypeEdits(c)
    \/ \E c \in Calls : Executor(c)
    \/ \E c \in Calls : ExecutorLost(c)
    \/ \E c \in Calls : ExecutorThrows(c)
    \/ \E c \in Calls : Return(c)
    \/ \E p \in ProcIds : ProcError(p)
    \/ \E p \in ProcIds : ProcStdinError(p)
    \/ \E p \in ProcIds : ProcStdout(p)
    \/ \E p \in ProcIds : ProcStderr(p)
    \/ \E p \in ProcIds : ProcClose(p)

SpecEditor == InitEditor /\ [][NextEditor]_vars

\* ----------------------------------------------------- createWorker alone
\* A third specification: processes are started by createWorker for
\* workspaces of a file and of a virtual file system, under every value of
\* the settings and every content of the disk.
WorkerWorkspaces ==
    Workspaces
    \cup { [name |-> "v1", scheme |-> "vscode-vfs", path |-> <<"/", "v1">>,
            fsPath |-> <<"/", "v1">>] }

\* values of the 'executable' setting: the default '', names, an absolute path
WorkerExecutables == Executables \cup { << >>, <<"/", "opt", "/", "perltidy">> }

\* values of the 'profile' setting
WorkerProfiles == { << >>, <<"gnu">> }

\* the paths createWorker may ask existsSync about
WorkerPaths ==
    { join(ws.path, e) : ws \in WorkerWorkspaces,
                         e \in { x \in WorkerExecutables : ~isAbsolute(x) } }

InitWorker ==
    /\ workerCacheMap = [n \in WsNames |-> 0]
    /\ procs = << >>
    /\ calls = [c \in Calls |-> IdleCall]
    /\ config \in [executable : WorkerExecutables, profile : WorkerProfiles,
                   autoDisable : {FALSE}]
    /\ fs \in SUBSET WorkerPaths
    /\ uncaught = {}
    /\ editor = NoRequest

\* createWorker(workspace); what it throws is caught by nobody here
StartWorker(workspace) ==
    /\ LET r == createWorker(World, workspace)
       IN  Becomes(IF r.ok THEN r.w
                   ELSE [r.w EXCEPT !.uncaught = @ \cup {r.error.tmpl}])
    /\ UNCHANGED <<config, fs, editor>>

NextWorker == \E workspace \in WorkerWorkspaces : StartWorker(workspace)

SpecWorker == InitWorker /\ [][NextWorker]_vars

\* ================================================================ properties
Range(seq) == { seq[i] : i \in 1..Len(seq) }

\* format was called for c in this step
Called(c) == calls[c].pc = "idle" /\ calls'[c].pc # "idle"

\* the process p raises its process-level error in this step
Errors(p) ==
    procs[p].st \in {"running", "failing"} /\ procs'[p].st \in {"errored", "unhandled"}

\* the process p closes in this step
Closes(p) == procs[p].st # "closed" /\ procs'[p].st = "closed"

\* C1: a format call is never handed, by standBy, the handle of a process
\* that has already exited or raised a process-level error (an exit or a
\* failure that Node has reported: one it has not reported yet, no program
\* could know of).
C1_NeverHandedDeadProcess ==
    [][\A c \in Calls :
          (Called(c) /\ calls'[c].worker # 0)
              => procs'[calls'[c].worker].st \in {"running", "exiting", "failing"}]_vars


\* C2: after an 'error' or a 'close' event of a process, a workspace root has
\* at most one running process, the cached one: no running process is left
\* outside the cache.
C2_LiveProcessIsTheCachedOne ==
    [][(\E p \in ProcIds : Errors(p) \/ Closes(p))
          => \A q \in 1..Len(procs') :
                procs'[q].st = "running" => workerCacheMap'[procs'[q].ws] = q]_vars

\* C3: no process that has not closed is used by two format calls.
C3_HandleUsedByOneCall ==
    \A p \in ProcIds : procs[p].st # "closed" => Len(procs[p].listeners) <= 1

\* C4: a text that format resolves with is the complete output the process
\* produced for that call's own input (nothing, when the process wrote no
\* output at all), never all or a part of the output for another call's
\* input.
C4_ResolvedTextIsOwnOutput ==
    \A c \in Calls :
        (calls[c].outcome.kind = "resolved" /\ ~calls[c].outcome.undef
            /\ calls[c].text # << >>)
            => calls[c].outcome.text =
                  (IF procs[calls[c].worker].outN = 0 THEN << >>
                   ELSE TidyOutput(calls[c].text))

\* C5: with autoDisable on and no .perltidyrc in the workspace root, format
\* resolves to undefined for every non-empty text.
C5_AutoDisableResolvesUndefined ==
    [][\A c \in Calls :
          (Called(c) /\ calls'[c].text # << >> /\ calls'[c].workspace \in WsNames
              /\ config.autoDisable
              /\ ~existsSync(RcPath(WorkspaceOf(calls'[c].workspace))))
              => calls'[c].outcome = ResolvedUndefined]_vars

\* C6 as stated: for a document of no workspace format fails with the
\* must-belong-to-a-workspace error, whatever the range, a zero-length one
\* included.
C6_NoWorkspaceAlwaysFails ==
    \A c \in Calls :
        (calls[c].pc # "idle" /\ calls[c].workspace = "none")
            => (calls[c].outcome.kind = "rejected"
                /\ calls[c].outcome.error.tmpl = "must-belong-to-workspace")

\* C6 amended: for a document of no workspace and a range whose text is not
\* empty, format fails with the must-belong-to-a-workspace FormatError and is
\* handed no process.
C6_NoWorkspaceFailsForNonEmptyText ==
    \A c \in Calls :
        (calls[c].pc # "idle" /\ calls[c].workspace = "none" /\ calls[c].text # << >>)
            => (calls[c].outcome.kind = "rejected"
                /\ calls[c].outcome.error.cls = "FormatError"
                /\ calls[c].outcome.error.tmpl = "must-belong-to-workspace"
                /\ calls[c].worker = 0)

C6_Witness ==
    \E c \in Calls :
        /\ calls[c].workspace = "none" /\ calls[c].text # << >>
        /\ calls[c].outcome.kind = "rejected"

\* C7: for a range whose text is empty, format resolves to the empty string,
\* starts no process, writes to no process and leaves the cache as it was,
\* whatever the workspace and the configuration.
C7_EmptyTextIsNoOp ==
    [][\A c \in Calls :
          (Called(c) /\ calls'[c].text = << >>)
              => (/\ calls'[c].outcome.kind = "resolved"
                  /\ ~calls'[c].outcome.undef
                  /\ calls'[c].outcome.text = << >>
                  /\ calls'[c].worker = 0
                  /\ procs' = procs
                  /\ workerCacheMap' = workerCacheMap
                  /\ uncaught' = uncaught)]_vars

\* an empty text was formatted for a document of no workspace, and a handle
\* is cached
C7_Witness ==
    /\ \E c \in Calls :
          /\ calls[c].text = << >> /\ calls[c].workspace = "none"
          /\ calls[c].outcome.kind = "resolved"
    /\ \E n \in WsNames : workerCacheMap[n] # 0

\* the process p is used by the call c, which waits for it: c was handed p
\* by standBy and has not settled
Uses(c, p) ==
    /\ calls[c].worker = p
    /\ calls[c].pc \in {"await", "attached"}
    /\ calls[c].outcome.kind = "pending"

\* what the claim lets the close of p with status code decide for a call:
\* the text resolved with is the concatenation of all the output chunks of
\* the process
ClosedAsStated(call, p, code) ==
    IF code = 0
    THEN /\ call.outcome.kind = "resolved" /\ ~call.outcome.undef
         /\ call.outcome.text = Concat(SubSeq(TidyChunks(procs'[p].stdin), 1, procs'[p].outN))
    ELSE /\ call.outcome.kind = "rejected"
         /\ call.outcome.error.cls = "FormatError"
         /\ call.outcome.error.code = code
         /\ call.outcome.error.errors = call.error_text
         /\ call.outcome.error.tmpl =
               (IF call.error_text = << >> THEN "exit-code" ELSE "exit-code-error-messages")

\* C8: when the process used by a format call closes (the call not settled
\* before by an 'error' event of the process, whose outcome stands): with
\* exit status 0 the call resolves with exactly the concatenation of all the
\* output chunks of the process, whether or not there were diagnostics; with
\* a non-zero status it rejects with a FormatError that carries the status
\* and, when the call has accumulated any, the error-stream text verbatim,
\* and the status only when it has accumulated none.
C8_CloseDecidesOutcome ==
    [][\A p \in ProcIds : Closes(p) =>
          \A c \in Calls :
              Uses(c, p) => ClosedAsStated(calls'[c], p, procs'[p].exitCode)]_vars

\* what the claim lets an 'error' event of p decide for a call, from the
\* error's code and the executable the process was started with
ErroredAsStated(call, p) ==
    /\ call.outcome.kind = "rejected"
    /\ IF procs'[p].errorCode = "ENOENT"
       THEN /\ call.outcome.error.cls = "FormatError"
            /\ call.outcome.error.exe = procs[p].executable
            /\ call.outcome.error.tmpl =
                  (IF procs[p].executable = <<"perltidy">>
                   THEN "not-found-forgot-to-install" ELSE "not-found")
       ELSE /\ call.outcome.error.cls = "Error"
            /\ call.outcome.error.tmpl = procs'[p].errorCode

\* C9: when the process used by a format call raises an 'executable not
\* found' error, the call rejects with a FormatError naming the executable,
\* with the install hint exactly when the executable is 'perltidy'; on any
\* other process-level error it rejects with that error; and the outcome,
\* once decided, is not changed by the 'close' event that follows.
C9_ErrorDecidesOutcome ==
    [][/\ \A p \in ProcIds : Errors(p) =>
             \A c \in Calls : Uses(c, p) => ErroredAsStated(calls'[c], p)
       /\ \A c \in Calls :
             calls[c].outcome.kind # "pending" => calls'[c].outcome = calls[c].outcome]_vars

\* a format that was skipped: the text was empty, or standBy refused a
\* document of a workspace (auto-disable in force)
Skipped(call) ==
    \/ call.text = << >>
    \/ call.workspace \in WsNames /\ call.worker = 0

\* C10: whichever entry point made the call, a skipped format produces no
\* edit and no error notification.
C10_SkippedIsSilent ==
    \A c \in Calls :
        (calls[c].pc = "returned" /\ Skipped(calls[c]))
            => (~calls[c].edit.made /\ calls[c].notified = 0)

\* C11: an entry point produces an edit only if format resolved with the
\* complete formatted text of the call's input; a rejection of format is
\* passed to handleTidyError exactly once and produces no edit; and no
\* failure of the formatter is left uncaught (the process-level error of a
\* process that was started in advance and the rejection of a standBy call
\* made by an error or close listener included).
C11_NoFailureEscapes ==
    /\ \A c \in Calls :
          /\ calls[c].edit.made
                => (/\ calls[c].outcome.kind = "resolved"
                    /\ ~calls[c].outcome.undef
                    /\ calls[c].edit.text = calls[c].outcome.text)
          /\ (calls[c].pc = "returned" /\ calls[c].outcome.kind = "rejected")
                => (calls[c].notified = 1 /\ ~calls[c].edit.made)
          /\ calls[c].outcome.kind # "rejected" => calls[c].notified = 0
    /\ uncaught = {}

\* the write of the call c was accepted by the stdin of its process: the
\* process read the text, or it had exited by then and read nothing, the
\* write being the one that first used the handle
WriteAccepted(c) ==
    LET p == calls[c].worker
    IN  \/ procs[p].stdin = calls[c].text
        \/ procs[p].stdin = << >> /\ procs[p].listeners # << >> /\ Head(procs[p].listeners) = c

\* C12: an on-type request that is cancelled when format completes returns no
\* edit, whatever format resolved to; and the cancellation has not prevented
\* the interaction with the process: the call's text (when there is one to
\* format) has been written to one process, whose input was ended and whose
\* close the call has waited for.
C12_CancelledOnTypeReturnsNoEdit ==
    \A c \in Calls :
        (calls[c].pc = "returned" /\ calls[c].entry = "ontype" /\ calls[c].cancelled)
            => (/\ ~calls[c].edit.made
                /\ calls[c].text # << >>
                      => (/\ calls[c].worker # 0
                          /\ WriteAccepted(c)
                          /\ procs[calls[c].worker].ended
                          /\ procs[calls[c].worker].st = "closed"))

\* the lines before p.line that hold a ';'
TerminatedLinesBefore(document, p) ==
    { l \in 0..(p.line - 1) : \E i \in 1..Len(lineAt(document, l)) : lineAt(document, l)[i] = ";" }

\* C13: the range the on-type provider resolves for a trigger position p ends
\* at p and starts at (L+1, 0), L being the greatest line index below p.line
\* whose text holds a ';', or at (0, 0) when there is no such line; the start
\* is never after p.
C13_OnTypeRangeResolution ==
    \A c \in Calls :
        editor.requests[c].request = "ontype" =>
            LET p == editor.requests[c].position
                T == TerminatedLinesBefore(editor.document, p)
            IN  /\ editor.requests[c].resolved.end = p
                /\ editor.requests[c].resolved.start =
                      (IF T = {} THEN Position(0, 0)
                       ELSE Position((CHOOSE l \in T : \A m \in T : m <= l) + 1, 0))
                /\ isBeforeOrEqual(editor.requests[c].resolved.start, p)

\* the spec's example: a ';' on line 3, none on line 4, the trigger on line
\* 5; format was given the text from (4, 0) to the trigger
C13_Witness ==
    \E c \in Calls :
        /\ editor.requests[c].request = "ontype"
        /\ editor.requests[c].position = Position(5, 1)
        /\ TerminatedLinesBefore(editor.document, editor.requests[c].position) = {0, 3}
        /\ editor.requests[c].resolved.start = Position(4, 0)
        /\ calls[c].text = <<"}", "\n", "}">>

\* C14: the range-formatting provider moves the start of the candidate range
\* to column 0 of its line exactly when every character between the line
\* start and the candidate start is whitespace (no character at all
\* included), and leaves the start unchanged otherwise; it never changes the
\* end; and the edit it returns replaces exactly the range whose text it
\* passed to format.
C14_RangeExpansion ==
    \A c \in Calls :
        editor.requests[c].request = "range" =>
            LET r == editor.requests[c].range
                line == lineAt(editor.document, r.start.line)
                blank == \A i \in 1..r.start.character : line[i] \in WhitespaceChars
            IN  /\ editor.requests[c].resolved.start =
                      (IF blank THEN Position(r.start.line, 0) ELSE r.start)
                /\ editor.requests[c].resolved.end = r.end
                /\ calls[c].text = getText(editor.document, editor.requests[c].resolved)
                /\ editor.requests[c].edit.made
                      => editor.requests[c].edit.range = editor.requests[c].resolved

\* the spec's first example: in the line "  d" the candidate starts at the
\* d; format was given the line from column 0 and the edit replaces that
\* range with format's text
C14_Witness ==
    \E c \in Calls :
        /\ editor.requests[c].request = "range"
        /\ lineAt(editor.document, editor.requests[c].range.start.line) = <<" ", " ", "d">>
        /\ editor.requests[c].range.start.character = 2
        /\ ~isEmpty(editor.requests[c].range)
        /\ editor.requests[c].resolved.start.character = 0
        /\ calls[c].text = <<" ", " ", "d">>
        /\ editor.requests[c].edit.made
        /\ editor.requests[c].edit.text = <<"[", " ", " ", "d", "]">>

\* the process has emitted nothing yet: no chunk, no 'error', no 'close'
Silent(p) ==
    procs[p].st \in {"running", "failing"} /\ procs[p].outN = 0 /\ procs[p].errN = 0

\* the output chunks the process has emitted so far, concatenated
EmittedOutput(p) == Concat(SubSeq(TidyChunks(procs[p].stdin), 1, procs[p].outN))

\* C15: within a format call the text is written and the input ended before
\* any chunk of the call's process is read; a call whose outcome was decided
\* by an event of its process has observed every output and error-stream
\* chunk the process emitted; and no process emits a chunk or an event before
\* the call that uses it has attached its listeners, a process that was
\* started in advance and cached included.
C15_CallObservesEveryEvent ==
    /\ \A c \in Calls :
          (calls[c].result_text # << >> \/ calls[c].error_text # << >>)
              => procs[calls[c].worker].ended
    /\ \A c \in Calls :
          (calls[c].outcome.kind # "pending" /\ calls[c].worker # 0
              /\ c \in Range(procs[calls[c].worker].listeners))
              => (/\ calls[c].result_text = EmittedOutput(calls[c].worker)
                  /\ Len(calls[c].error_text) = procs[calls[c].worker].errN * Len(ErrChunk))
    /\ \A c \in Calls : calls[c].pc = "await" => Silent(calls[c].worker)
    /\ \A p \in ProcIds : procs[p].listeners = << >> => Silent(p)

\* the call c gives up its handle in this step after an exception thrown by
\* the write to it
Throws(c) == calls[c].pc = "await" /\ calls'[c].pc = "settled"

\* the workspaces whose cache entry is evicted in this step: by a listener of
\* an 'error' or a 'close' event, or by the catch block of format
EvictedWorkspaces ==
    { calls[c].workspace : c \in { d \in Calls : Throws(d) } }
    \cup { procs[p].ws : p \in { q \in ProcIds :
                                   (Errors(q) \/ Closes(q)) /\ procs[q].listeners # << >> } }

\* the handle cached for the workspace n after this step is a process started
\* in this step, different from every process that existed before, and
\* nothing has been written to it
CachesFreshProcess(n) ==
    /\ workerCacheMap'[n] > Len(procs)
    /\ workerCacheMap'[n] <= Len(procs')
    /\ procs'[workerCacheMap'[n]].st = "running"
    /\ procs'[workerCacheMap'[n]].stdin = << >>
    /\ ~procs'[workerCacheMap'[n]].ended
    /\ procs'[workerCacheMap'[n]].listeners = << >>

\* C16 as stated: on every eviction (an 'error' event, a 'close' event with
\* any exit status, an exception thrown while the handle is used) the entry
\* is removed before the replacement is acquired: the handle cached right
\* after the eviction is a process started by this eviction, different from
\* the evicted one, and the failed request's text is not replayed to it.
C16_EveryEvictionCachesFreshProcess ==
    [][\A n \in EvictedWorkspaces : CachesFreshProcess(n)]_vars

\* C16 amended: the same on every eviction after which formatting is still
\* enabled for the workspace; when it is disabled by then (auto-disable on,
\* no .perltidyrc), no replacement is started and no handle is cached.
C16_EvictionCachesFreshProcess ==
    [][\A n \in EvictedWorkspaces :
          IF isFormatEnabled(WorkspaceOf(n))
          THEN CachesFreshProcess(n)
          ELSE workerCacheMap'[n] = 0 /\ Len(procs') = Len(procs)]_vars

\* a call has failed with a non-zero exit status of its process, and a later
\* process that has been given no input is cached for its workspace
C16_Witness ==
    \E c \in Calls :
        /\ calls[c].worker # 0
        /\ procs[calls[c].worker].st = "closed"
        /\ procs[calls[c].worker].exitCode # 0
        /\ calls[c].outcome.kind = "rejected"
        /\ calls[c].text # << >>
        /\ workerCacheMap[calls[c].workspace] > calls[c].worker
        /\ procs[workerCacheMap[calls[c].workspace]].stdin = << >>
        /\ Silent(workerCacheMap[calls[c].workspace])

\* the workspace folder a process was started for
StartedFor(p) == CHOOSE ws \in WorkerWorkspaces : ws.name = procs[p].ws

\* C17: createWorker starts the process with the path resolved against the
\* workspace root, in the workspace root, if the executable setting is not
\* absolute and that path exists; otherwise with the setting unchanged, in
\* the workspace root for a file-scheme workspace and in '.' for any other;
\* and an empty executable setting is passed through as it is, never
\* replaced by a path.
C17_ExecutableResolution ==
    \A p \in ProcIds :
        LET ws == StartedFor(p)
            setting == config.executable
            resolved == join(ws.path, setting)
        IN  /\ IF ~isAbsolute(setting) /\ resolved \in fs
               THEN procs[p].executable = resolved /\ procs[p].cwd = ws.path
               ELSE /\ procs[p].executable = setting
                    /\ procs[p].cwd = (IF ws.scheme = "file" THEN ws.fsPath ELSE <<".">>)
            /\ setting = << >> => procs[p].executable = << >>

\* C18: every format call with a non-empty text eventually resolves or
\* rejects, provided every process eventually closes or raises an error.
\* Stated so that a finite run refutes it: a call that has attached its
\* listeners and is still pending has a process that has not closed yet (a
\* closed process emits nothing more, so such a call would stay pending for
\* ever).  This covers a call served by a cached process that failed or
\* exited before the listeners were attached, and two calls on one handle.
C18_PendingCallHasLiveProcess ==
    \A c \in Calls :
        (calls[c].pc = "attached" /\ calls[c].text # << >>
            /\ calls[c].outcome.kind = "pending")
            => procs[calls[c].worker].st # "closed"

\* C19: the eviction made on an 'error' or a 'close' event of a process P
\* removes from the cache only the handle of P: an entry that holds a
\* different process that is still running (the replacement started on an
\* earlier event of P, or by another call's eviction) is left as it is.
C19_EvictionRemovesOnlyOwnHandle ==
    [][\A p \in ProcIds : (Errors(p) \/ Closes(p)) =>
          \A n \in WsNames :
              (workerCacheMap[n] \notin {0, p}
                  /\ procs[workerCacheMap[n]].st = "running")
                  => workerCacheMap'[n] = workerCacheMap[n]]_vars

====
